---- MODULE Spec2Model ----
(***************************************************************************)
(* Bus-stop extraction scripts main.py and main(1).py: PDF text is split   *)
(* into lines (main.py) or sections (main(1).py), coordinate pairs are     *)
(* matched by two regular expressions, filtered by the Maceio bounding     *)
(* box, deduplicated, written to CSV and rendered to HTML maps.            *)
(*                                                                         *)
(* A text is a sequence of one-character strings.  A float is the integer  *)
(* number of 10^-CASAS units it denotes (the texts of the model carry at   *)
(* most one fractional digit, so the conversion is exact).                 *)
(***************************************************************************)
EXTENDS Integers, Sequences, FiniteSets, TLC

\* ------------------------------------------------------------------ bounds
\* fractional digits kept by the fixed-point floats
CASAS == 1
\* items (text blocks, page breaks) of the PDF of the single-PDF runs
MaxItens == 3
\* fragments of the texts handed to the pure functions
MaxFragmentos == 3

\* --------------------------------------------------------------- characters
Digitos == <<"0", "1", "2", "3", "4", "5", "6", "7", "8", "9">>
Maiusculas == <<"A", "B", "C", "D", "E", "F", "G", "H", "I", "J", "K", "L", "M",
                "N", "O", "P", "Q", "R", "S", "T", "U", "V", "W", "X", "Y", "Z">>
Minusculas == <<"a", "b", "c", "d", "e", "f", "g", "h", "i", "j", "k", "l", "m",
                "n", "o", "p", "q", "r", "s", "t", "u", "v", "w", "x", "y", "z">>

\* \d of the regular expressions
IsDigit(c) == \E k \in 1..10 : Digitos[k] = c
\* \s of the regular expressions, and the characters str.strip() removes
IsSpace(c) == c \in {" ", "\n", "\t"}
\* int(c) of a digit
DigitVal(c) == (CHOOSE k \in 1..10 : Digitos[k] = c) - 1
\* case folding of re.IGNORECASE
MapaMinusculas ==
    [c \in { Maiusculas[k] : k \in 1..26 } |->
        Minusculas[CHOOSE k \in 1..26 : Maiusculas[k] = c]]
lower(c) == IF c \in DOMAIN MapaMinusculas THEN MapaMinusculas[c] ELSE c

RECURSIVE Pow10(_)
Pow10(n) == IF n = 0 THEN 1 ELSE 10 * Pow10(n - 1)

\* the literal lit matches texto at position p (flags: re.IGNORECASE or not)
re_literal(lit, texto, p, ignorecase) ==
    /\ p >= 1
    /\ p + Len(lit) - 1 <= Len(texto)
    /\ \A k \in 1..Len(lit) :
          IF ignorecase THEN lower(texto[p + k - 1]) = lower(lit[k])
                        ELSE texto[p + k - 1] = lit[k]

\* first position >= p that holds no whitespace (greedy \s*)
RECURSIVE FimEspacos(_, _)
FimEspacos(texto, p) ==
    IF p <= Len(texto) /\ IsSpace(texto[p]) THEN FimEspacos(texto, p + 1) ELSE p

\* first position >= p that holds no digit (greedy \d+)
RECURSIVE FimDigitos(_, _)
FimDigitos(texto, p) ==
    IF p <= Len(texto) /\ IsDigit(texto[p]) THEN FimDigitos(texto, p + 1) ELSE p

\* str.strip()
RECURSIVE lstrip(_)
lstrip(s) == IF s # <<>> /\ IsSpace(Head(s)) THEN lstrip(Tail(s)) ELSE s
RECURSIVE rstrip(_)
rstrip(s) == IF s # <<>> /\ IsSpace(s[Len(s)]) THEN rstrip(SubSeq(s, 1, Len(s) - 1)) ELSE s
strip(s) == rstrip(lstrip(s))

\* ------------------------------------------------------ validar_secao_ativa
ATIVO == <<"A", "t", "i", "v", "o", ":">>
IGNORECASE == TRUE

\* the four patterns: the word after "Ativo:\s*" and whether "\s+<word>" follows
padroes ==
    << [palavra |-> <<"S", "i", "m">>, repetida |-> TRUE],
       [palavra |-> <<"S", "i", "m">>, repetida |-> FALSE],
       [palavra |-> <<"S", "I", "M">>, repetida |-> FALSE],
       [palavra |-> <<"s", "i", "m">>, repetida |-> FALSE] >>

\* re.search(padrao, texto, flags): the pattern matches at some position
re_search(padrao, texto, ignorecase) ==
    \E p \in 1..Len(texto) :
       /\ re_literal(ATIVO, texto, p, ignorecase)
       /\ LET q == FimEspacos(texto, p + Len(ATIVO))
              r == q + Len(padrao.palavra)
          IN  /\ re_literal(padrao.palavra, texto, q, ignorecase)
              /\ padrao.repetida =>
                    /\ FimEspacos(texto, r) > r
                    /\ re_literal(padrao.palavra, texto, FimEspacos(texto, r), ignorecase)

validar_sem_ignorecase(texto_secao) ==
    \E k \in 1..Len(padroes) : re_search(padroes[k], texto_secao, FALSE)

validar_secao_ativa(texto_secao) ==
    \E k \in 1..Len(padroes) : re_search(padroes[k], texto_secao, IGNORECASE)

\* ------------------------------------------------------- extrair_secoes_pdf
MARCADOR_ATENDIMENTO == <<"A", "t", "e", "n", "d", "i", "m", "e", "n", "t", "o", " ",
                          "P", "r", "i", "n", "c", "i", "p", "a", "l", ":">>
MARCADOR_LINHA == <<"L", "i", "n", "h", "a", ":">>

\* length of the match of (?:Atendimento Principal:|Linha:) at p, 0 when none
padrao_inicio_secao(texto, p) ==
    IF re_literal(MARCADOR_ATENDIMENTO, texto, p, FALSE) THEN Len(MARCADOR_ATENDIMENTO)
    ELSE IF re_literal(MARCADOR_LINHA, texto, p, FALSE) THEN Len(MARCADOR_LINHA)
    ELSE 0

\* the positions from p on where the section pattern matches
inicios_de_secao(texto, p) == { q \in p..Len(texto) : padrao_inicio_secao(texto, q) > 0 }

Min(S) == CHOOSE x \in S : \A y \in S : x <= y

\* re.split: the pieces between the leftmost non-overlapping matches; p is
\* where the current piece starts
RECURSIVE re_split(_, _)
re_split(texto, p) ==
    IF inicios_de_secao(texto, p) = {} THEN << SubSeq(texto, p, Len(texto)) >>
    ELSE LET q == Min(inicios_de_secao(texto, p))
         IN  << SubSeq(texto, p, q - 1) >> \o re_split(texto, q + padrao_inicio_secao(texto, q))

secoes_com_pre_texto(texto_completo) ==
    LET secoes == re_split(texto_completo, 1)
    IN  [k \in 1..Len(secoes) |-> strip(secoes[k])]

extrair_secoes_pdf(texto_completo) ==
    LET secoes == re_split(texto_completo, 1)
    IN  [k \in 1..(Len(secoes) - 1) |-> strip(secoes[k + 1])]

\* -------------------------------------------------------------- coordinates
\* the decimal separators each of the two patterns accepts
padroes_coordenadas == << {",", "."}, {"."} >>

\* end (exclusive) of a match of -?\d{1,2}[seps]\d+ at p, 0 when none
re_numero(texto, p, seps) ==
    LET p1 == IF p <= Len(texto) /\ texto[p] = "-" THEN p + 1 ELSE p
        p2 == IF p1 + 1 <= Len(texto) /\ IsDigit(texto[p1 + 1]) THEN p1 + 2 ELSE p1 + 1
        p3 == FimDigitos(texto, p2 + 1)
    IN  IF /\ p1 <= Len(texto) /\ IsDigit(texto[p1])
           /\ p2 <= Len(texto) /\ texto[p2] \in seps
           /\ p3 > p2 + 1
        THEN p3 ELSE 0

\* a match of (numero)\s+(numero) at p: the two groups and the end, or fim = 0
re_par(texto, p, seps) ==
    LET e1 == re_numero(texto, p, seps)
        w  == IF e1 = 0 THEN 0 ELSE FimEspacos(texto, e1)
        e2 == IF e1 = 0 \/ w = e1 THEN 0 ELSE re_numero(texto, w, seps)
    IN  IF e2 = 0 THEN [fim |-> 0]
        ELSE [fim |-> e2, lat_str |-> SubSeq(texto, p, e1 - 1),
              lon_str |-> SubSeq(texto, w, e2 - 1)]

\* re.findall: leftmost non-overlapping matches from position p on
RECURSIVE re_findall(_, _, _)
re_findall(seps, texto, p) ==
    LET inicios == { q \in p..Len(texto) : re_par(texto, q, seps).fim > 0 }
    IN  IF inicios = {} THEN <<>>
        ELSE LET m == re_par(texto, Min(inicios), seps)
             IN  << [lat_str |-> m.lat_str, lon_str |-> m.lon_str] >>
                 \o re_findall(seps, texto, m.fim)

\* value of a digit string
RECURSIVE NumeroDe(_)
NumeroDe(ds) == IF ds = <<>> THEN 0
                ELSE 10 * NumeroDe(SubSeq(ds, 1, Len(ds) - 1)) + DigitVal(ds[Len(ds)])

\* float(s.replace(',', '.')) in units of 10^-CASAS
float(s) ==
    LET neg  == s[1] = "-"
        u    == IF neg THEN Tail(s) ELSE s
        sep  == CHOOSE k \in 1..Len(u) : u[k] \in {",", "."}
        int  == NumeroDe(SubSeq(u, 1, sep - 1))
        frac == SubSeq(u, sep + 1, Len(u))
        n    == Len(frac)
        mag  == IF n <= CASAS
                THEN int * Pow10(CASAS) + NumeroDe(frac) * Pow10(CASAS - n)
                ELSE int * Pow10(CASAS) + NumeroDe(SubSeq(frac, 1, CASAS))
    IN  IF neg THEN 0 - mag ELSE mag

\* -9.8, -9.4, -35.9, -35.6
LIMITES_MACEIO ==
    [lat_min |-> 0 - 98 * Pow10(CASAS - 1), lat_max |-> 0 - 94 * Pow10(CASAS - 1),
     lon_min |-> 0 - 359 * Pow10(CASAS - 1), lon_max |-> 0 - 356 * Pow10(CASAS - 1)]

dentro_dos_limites(lat, lon) ==
    /\ LIMITES_MACEIO.lat_min < lat /\ lat < LIMITES_MACEIO.lat_max
    /\ LIMITES_MACEIO.lon_min < lon /\ lon < LIMITES_MACEIO.lon_max

\* drop_duplicates as it would be with keep='last'
RECURSIVE drop_duplicates_last(_)
drop_duplicates_last(linhas) ==
    IF linhas = <<>> THEN <<>>
    ELSE IF \E k \in 2..Len(linhas) :
               /\ linhas[k].latitude = Head(linhas).latitude
               /\ linhas[k].longitude = Head(linhas).longitude
         THEN drop_duplicates_last(Tail(linhas))
         ELSE << Head(linhas) >> \o drop_duplicates_last(Tail(linhas))

\* DataFrame.drop_duplicates(subset=['latitude', 'longitude']), keep='first'
RECURSIVE drop_duplicates(_)
drop_duplicates(linhas) ==
    IF linhas = <<>> THEN <<>>
    ELSE LET resto  == drop_duplicates(SubSeq(linhas, 1, Len(linhas) - 1))
             ultima == linhas[Len(linhas)]
         IN  IF \E k \in 1..(Len(linhas) - 1) :
                    /\ linhas[k].latitude = ultima.latitude
                    /\ linhas[k].longitude = ultima.longitude
             THEN resto
             ELSE Append(resto, ultima)

\* pd.concat(lista_dfs, ignore_index=True)
RECURSIVE concat(_)
concat(lista_dfs) ==
    IF lista_dfs = <<>> THEN <<>> ELSE Head(lista_dfs) \o concat(Tail(lista_dfs))

\* every match as a row, without the bounding-box test
pontos_sem_limites(matches, modelo) ==
    [k \in 1..Len(matches) |->
        [modelo EXCEPT !.latitude = float(matches[k].lat_str),
                       !.longitude = float(matches[k].lon_str)]]

\* the in-bounds rows of the matches of one pattern, in match order
RECURSIVE pontos_dos_matches(_, _)
pontos_dos_matches(matches, modelo) ==
    IF matches = <<>> THEN <<>>
    ELSE LET lat == float(Head(matches).lat_str)
             lon == float(Head(matches).lon_str)
             resto == pontos_dos_matches(Tail(matches), modelo)
         IN  IF dentro_dos_limites(lat, lon)
             THEN << [modelo EXCEPT !.latitude = lat, !.longitude = lon] >> \o resto
             ELSE resto

\* main(1).py: the points of one section, pattern by pattern
extrair_coordenadas_secao(texto_secao, empresa_nome, num_secao) ==
    LET modelo == [empresa |-> empresa_nome, latitude |-> 0, longitude |-> 0,
                   pagina |-> 1, secao |-> num_secao]
    IN  pontos_dos_matches(re_findall(padroes_coordenadas[1], texto_secao, 1), modelo)
        \o pontos_dos_matches(re_findall(padroes_coordenadas[2], texto_secao, 1), modelo)

\* -------------------------------------------------------------- point codes
\* [A-Z] of the code patterns
IsUpper(c) == c \in DOMAIN MapaMinusculas

\* first position >= p that holds no capital letter (greedy [A-Z]{2,})
RECURSIVE FimMaiusculas(_, _)
FimMaiusculas(texto, p) ==
    IF p <= Len(texto) /\ IsUpper(texto[p]) THEN FimMaiusculas(texto, p + 1) ELSE p

\* padroes_codigo of extrair_codigo_ponto, in the order they are tried:
\* [A-Z]{2,}\d+ (no literal), PONTO\s*\d+, PP\s*\d+, PN\s*\d+
padroes_codigo ==
    << [literal |-> <<>>, espacos |-> FALSE],
       [literal |-> <<"P", "O", "N", "T", "O">>, espacos |-> TRUE],
       [literal |-> <<"P", "P">>, espacos |-> TRUE],
       [literal |-> <<"P", "N">>, espacos |-> TRUE] >>

\* one code pattern matched at position q: the position after the match,
\* 0 when it does not match there (the patterns carry no flag)
re_codigo(padrao, texto, q) ==
    LET a == IF padrao.literal = <<>>
             THEN LET f == FimMaiusculas(texto, q) IN IF f - q >= 2 THEN f ELSE 0
             ELSE IF re_literal(padrao.literal, texto, q, FALSE)
                  THEN q + Len(padrao.literal) ELSE 0
        b == IF a > 0 /\ padrao.espacos THEN FimEspacos(texto, a) ELSE a
        c == IF b > 0 THEN FimDigitos(texto, b) ELSE 0
    IN  IF b > 0 /\ c > b THEN c ELSE 0

\* re.findall(padrao, texto_secao)[0]: the leftmost match, <<>> when none
primeiro_codigo(padrao, texto) ==
    LET inicios == { q \in 1..Len(texto) : re_codigo(padrao, texto, q) > 0 }
    IN  IF inicios = {} THEN <<>>
        ELSE SubSeq(texto, Min(inicios), re_codigo(padrao, texto, Min(inicios)) - 1)

\* s.replace(' ', '')
sem_espacos(s) == SelectSeq(s, LAMBDA c : c # " ")

\* str(n) of an integer
RECURSIVE str(_)
str(n) ==
    IF n < 0 THEN <<"-">> \o str(0 - n)
    ELSE IF n < 10 THEN << Digitos[n + 1] >>
    ELSE str(n \div 10) \o << Digitos[(n % 10) + 1] >>

\* f"Ponto_{int(lat*10000)}_{int(lon*10000)}": the product is exact for the
\* values of one fractional digit the texts carry
codigo_gerado(lat, lon) ==
    <<"P", "o", "n", "t", "o", "_">> \o str(lat * Pow10(4 - CASAS))
    \o <<"_">> \o str(lon * Pow10(4 - CASAS))

\* main(1).py: the first match of the first pattern that matches anywhere in
\* the section, without its blanks; a generated code when no pattern matches
extrair_codigo_ponto(texto_secao, lat, lon) ==
    LET casados == { n \in 1..Len(padroes_codigo) :
                       primeiro_codigo(padroes_codigo[n], texto_secao) # <<>> }
    IN  IF casados # {}
        THEN sem_espacos(primeiro_codigo(padroes_codigo[Min(casados)], texto_secao))
        ELSE codigo_gerado(lat, lon)

\* main(1).py: the rows of extrair_coordenadas_secao with the 'codigo' column
\* each of them is given
pontos_com_codigo(texto_secao, empresa_nome, num_secao) ==
    LET pontos == extrair_coordenadas_secao(texto_secao, empresa_nome, num_secao)
    IN  [k \in 1..Len(pontos) |->
            [empresa |-> pontos[k].empresa,
             codigo |-> extrair_codigo_ponto(texto_secao, pontos[k].latitude,
                                             pontos[k].longitude),
             latitude |-> pontos[k].latitude,
             longitude |-> pontos[k].longitude,
             pagina |-> pontos[k].pagina,
             secao |-> pontos[k].secao]]

\* str.split('\n'), from position p on
RECURSIVE split_linhas(_, _)
split_linhas(texto, p) ==
    LET quebras == { q \in p..Len(texto) : texto[q] = "\n" }
    IN  IF quebras = {} THEN << SubSeq(texto, p, Len(texto)) >>
        ELSE << SubSeq(texto, p, Min(quebras) - 1) >> \o split_linhas(texto, Min(quebras) + 1)

\* main.py: the points of one stripped line, pattern by pattern
coordenadas_da_linha(linha, empresa_nome, pagina_num_) ==
    LET modelo == [empresa |-> empresa_nome, latitude |-> 0, longitude |-> 0,
                   pagina |-> pagina_num_ + 1]
    IN  pontos_dos_matches(re_findall(padroes_coordenadas[1], strip(linha), 1), modelo)
        \o pontos_dos_matches(re_findall(padroes_coordenadas[2], strip(linha), 1), modelo)

\* main.py: the points of the lines of one page, line by line
RECURSIVE coordenadas_das_linhas(_, _, _)
coordenadas_das_linhas(linhas, empresa_nome, pagina_num_) ==
    IF linhas = <<>> THEN <<>>
    ELSE coordenadas_da_linha(Head(linhas), empresa_nome, pagina_num_)
         \o coordenadas_das_linhas(Tail(linhas), empresa_nome, pagina_num_)

\* ------------------------------------------------------------------- state
VARIABLES
    programa,         \* the script that runs: "main.py" or "main(1).py"
    pdfs,             \* per configured operator: the PDF file on disk
    pc,               \* position of the run
    i,                \* index of the operator the main loop is at
    log,              \* the messages printed so far
    escritos,         \* the files written so far, in order, with their rows
    todos_dfs,        \* todos_dfs / todos_dados of main
    df_consolidado,   \* df_consolidado / df_total of criar_mapa_consolidado
    pagina_num,       \* next page of the open PDF (1-based)
    texto_completo,   \* main(1).py: text of the pages read so far
    secoes,           \* main(1).py: result of extrair_secoes_pdf
    idx,              \* main(1).py: section the loop is at (1-based)
    secoes_ativas,    \* main(1).py: counter of active sections
    secoes_inativas,  \* main(1).py: counter of inactive sections
    dados,            \* rows collected by the extraction, in extraction order
    df,               \* DataFrame returned by the extraction
    arg,              \* text handed to a pure function
    ret               \* value the pure function returned

entrada == <<programa, pdfs, arg, ret>>
saidas  == <<escritos, todos_dfs, df_consolidado>>
locais  == <<pagina_num, texto_completo, secoes, idx, secoes_ativas, secoes_inativas,
             dados, df>>
vars    == <<programa, pdfs, pc, i, log, escritos, todos_dfs, df_consolidado,
             pagina_num, texto_completo, secoes, idx, secoes_ativas, secoes_inativas,
             dados, df, arg, ret>>

MAIN  == "main.py"
MAIN1 == "main(1).py"

\* PDFS_PARA_PROCESSAR of main(1).py, empresas of main.py: same operators, same files
PDFS_PARA_PROCESSAR ==
    << [caminho |-> "pontos_real.pdf",     empresa |-> "Real"],
       [caminho |-> "empresa_saoFran.pdf", empresa |-> "SaoFrancisco"],
       [caminho |-> "pontos_Maceio.pdf",   empresa |-> "CidadeMaceio"] >>

NumEmpresas == Len(PDFS_PARA_PROCESSAR)
empresa == PDFS_PARA_PROCESSAR[i].empresa
TODAS == "TODAS_EMPRESAS"

\* --------------------------------------------------------------- input PDFs
NL == <<"\n">>
SIM == <<"S", "i", "m">>
NAO == <<"N", "a", "o">>
\* "-9,5 -35,7" and "-9.5 -35.7": one point, written with comma and with dot
PAR_VIRGULA == <<"-", "9", ",", "5", " ", "-", "3", "5", ",", "7">>
PAR_PONTO   == <<"-", "9", ".", "5", " ", "-", "3", "5", ".", "7">>
\* "-9.6 -35.8": a second point inside the box
PAR_DOIS    == <<"-", "9", ".", "6", " ", "-", "3", "5", ".", "8">>
\* "-9.7 -35.7": a third point inside the box
PAR_TRES    == <<"-", "9", ".", "7", " ", "-", "3", "5", ".", "7">>
\* pairs outside the box: latitude on the bound, no minus signs, swapped,
\* longitude on the bound
PAR_LAT_LIMITE == <<"-", "9", ".", "8", " ", "-", "3", "5", ".", "7">>
PAR_SEM_SINAL  == <<"9", ".", "5", " ", "3", "5", ".", "7">>
PAR_TROCADO    == <<"-", "3", "5", ".", "7", " ", "-", "9", ".", "5">>
PAR_LON_LIMITE == <<"-", "9", ".", "5", " ", "-", "3", "5", ".", "6">>

CABECALHO_ATIVO   == MARCADOR_LINHA \o NL \o ATIVO \o <<" ">> \o SIM \o NL
CABECALHO_INATIVO == MARCADOR_ATENDIMENTO \o NL \o ATIVO \o <<" ">> \o NAO \o NL

Texto(t) == [tipo |-> "texto", texto |-> t]
QUEBRA   == [tipo |-> "quebra", texto |-> <<>>]
FALHA    == [tipo |-> "falha", texto |-> <<>>]

\* what a PDF is put together from: text blocks, a page break, and a mark
\* that makes extract_text() of the current page raise
Itens ==
    { Texto(CABECALHO_ATIVO \o PAR_VIRGULA \o NL),
      Texto(CABECALHO_ATIVO \o PAR_PONTO \o NL \o PAR_DOIS \o NL),
      Texto(CABECALHO_INATIVO \o PAR_TRES \o NL),
      Texto(PAR_DOIS \o NL),
      Texto(PAR_LAT_LIMITE \o NL \o PAR_SEM_SINAL \o NL \o PAR_TROCADO \o NL
            \o PAR_LON_LIMITE \o NL),
      Texto(MARCADOR_LINHA),
      QUEBRA,
      FALHA }

Pagina(t, e) == [texto |-> t, erro |-> e]

\* the pages a sequence of items makes up
RECURSIVE Paginas(_, _, _)
Paginas(itens, t, e) ==
    IF itens = <<>> THEN << Pagina(t, e) >>
    ELSE LET it == Head(itens)
         IN  IF it.tipo = "quebra" THEN << Pagina(t, e) >> \o Paginas(Tail(itens), <<>>, FALSE)
             ELSE IF it.tipo = "falha" THEN Paginas(Tail(itens), t, TRUE)
             ELSE Paginas(Tail(itens), t \o it.texto, e)

Pdf(paginas) == [existe |-> TRUE, abre |-> TRUE, paginas |-> paginas]
PDF_AUSENTE  == [existe |-> FALSE, abre |-> FALSE, paginas |-> <<>>]
PDF_ILEGIVEL == [existe |-> TRUE, abre |-> FALSE, paginas |-> <<>>]

SeqAte(S, n) == UNION { [1..k -> S] : k \in 0..n }

\* the PDFs of the single-PDF runs
PdfsGerados == { Pdf(Paginas(itens, <<>>, FALSE)) : itens \in SeqAte(Itens, MaxItens) }

\* the PDFs of the runs over the three operators: missing, unreadable, without
\* text, without valid points, with valid points, with a page that fails
\* after a page with valid points
PdfsDoLote ==
    { PDF_AUSENTE,
      PDF_ILEGIVEL,
      Pdf(<< Pagina(<<>>, FALSE) >>),
      Pdf(<< Pagina(CABECALHO_ATIVO \o PAR_LAT_LIMITE \o NL, FALSE) >>),
      Pdf(<< Pagina(CABECALHO_ATIVO \o PAR_VIRGULA \o NL \o PAR_PONTO \o NL, FALSE) >>),
      Pdf(<< Pagina(CABECALHO_ATIVO \o PAR_DOIS \o NL, FALSE), Pagina(<<>>, TRUE) >>) }

InitComum ==
    /\ programa \in {MAIN, MAIN1}
    /\ pc = "loop"
    /\ i = 1
    /\ log = <<>>
    /\ escritos = <<>>
    /\ todos_dfs = <<>>
    /\ df_consolidado = <<>>
    /\ pagina_num = 0
    /\ texto_completo = <<>>
    /\ secoes = <<>>
    /\ idx = 0
    /\ secoes_ativas = 0
    /\ secoes_inativas = 0
    /\ dados = <<>>
    /\ df = <<>>
    /\ arg = <<>>
    /\ ret = FALSE

\* a run over the three configured operators
Init ==
    /\ InitComum
    /\ pdfs \in [1..NumEmpresas -> PdfsDoLote]

\* a run in which only the first operator's PDF exists
InitPdf ==
    /\ InitComum
    /\ \E p \in PdfsGerados \cup {PDF_ILEGIVEL} :
          pdfs = [k \in 1..NumEmpresas |-> IF k = 1 THEN p ELSE PDF_AUSENTE]

Registrar(msg) == log' = Append(log, [msg |-> msg, empresa |-> empresa])
Arquivo(tipo, de, linhas) == [tipo |-> tipo, de |-> de, linhas |-> linhas]
ProximaEmpresa == i' = i + 1 /\ pc' = "loop"

\* ------------------------------------------------------ main(1).py: main
\* M1_ArquivoNaoEncontrado as it would be without the continue
M1_ArquivoNaoEncontrado_SemContinue ==
    /\ programa = MAIN1 /\ pc = "loop" /\ i <= NumEmpresas
    /\ ~pdfs[i].existe
    /\ log' = log \o << [msg |-> "Arquivo nao encontrado", empresa |-> empresa],
                        [msg |-> "PROCESSANDO", empresa |-> empresa] >>
    /\ dados' = <<>> /\ secoes_ativas' = 0 /\ secoes_inativas' = 0
    /\ texto_completo' = <<>> /\ secoes' = <<>> /\ idx' = 0 /\ pagina_num' = 0
    /\ df' = <<>>
    /\ pc' = "abrir"
    /\ UNCHANGED <<i, entrada, saidas>>

\* the operator's file does not exist: message, next operator
M1_ArquivoNaoEncontrado ==
    /\ programa = MAIN1 /\ pc = "loop" /\ i <= NumEmpresas
    /\ ~pdfs[i].existe
    /\ Registrar("Arquivo nao encontrado")
    /\ i' = i + 1
    /\ UNCHANGED <<pc, entrada, saidas, locais>>

\* the file exists: extrair_coordenadas_pdf_com_ativo is entered
M1_IniciarExtracao ==
    /\ programa = MAIN1 /\ pc = "loop" /\ i <= NumEmpresas
    /\ pdfs[i].existe
    /\ Registrar("PROCESSANDO")
    /\ dados' = <<>> /\ secoes_ativas' = 0 /\ secoes_inativas' = 0
    /\ texto_completo' = <<>> /\ secoes' = <<>> /\ idx' = 0 /\ pagina_num' = 0
    /\ df' = <<>>
    /\ pc' = "abrir"
    /\ UNCHANGED <<i, entrada, saidas>>

\* pdfplumber.open succeeds
M1_AbrirPdf ==
    /\ programa = MAIN1 /\ pc = "abrir"
    /\ pdfs[i].abre
    /\ pagina_num' = 1
    /\ pc' = "pagina"
    /\ UNCHANGED <<i, log, entrada, saidas, texto_completo, secoes, idx, secoes_ativas,
                   secoes_inativas, dados, df>>

\* pdfplumber.open raises: caught, logged, an empty DataFrame is returned
M1_AbrirPdfErro ==
    /\ programa = MAIN1 /\ pc = "abrir"
    /\ ~pdfs[i].abre
    /\ Registrar("ERRO ao processar PDF")
    /\ df' = <<>>
    /\ pc' = "retorno"
    /\ UNCHANGED <<i, entrada, saidas, pagina_num, texto_completo, secoes, idx,
                   secoes_ativas, secoes_inativas, dados>>

\* one page: its text, when it has any, is appended with a newline
M1_ExtrairPagina ==
    /\ programa = MAIN1 /\ pc = "pagina"
    /\ pagina_num <= Len(pdfs[i].paginas)
    /\ ~pdfs[i].paginas[pagina_num].erro
    /\ LET texto_pagina == pdfs[i].paginas[pagina_num].texto
       IN  texto_completo' = IF texto_pagina # <<>>
                             THEN texto_completo \o texto_pagina \o <<"\n">>
                             ELSE texto_completo
    /\ pagina_num' = pagina_num + 1
    /\ UNCHANGED <<pc, i, log, entrada, saidas, secoes, idx, secoes_ativas,
                   secoes_inativas, dados, df>>

\* extract_text raises: caught, logged, an empty DataFrame is returned
M1_ExtrairPaginaErro ==
    /\ programa = MAIN1 /\ pc = "pagina"
    /\ pagina_num <= Len(pdfs[i].paginas)
    /\ pdfs[i].paginas[pagina_num].erro
    /\ Registrar("ERRO ao processar PDF")
    /\ df' = <<>>
    /\ pc' = "retorno"
    /\ UNCHANGED <<i, entrada, saidas, pagina_num, texto_completo, secoes, idx,
                   secoes_ativas, secoes_inativas, dados>>

\* all pages read and no text at all: an empty DataFrame is returned
M1_SemTexto ==
    /\ programa = MAIN1 /\ pc = "pagina"
    /\ pagina_num > Len(pdfs[i].paginas)
    /\ texto_completo = <<>>
    /\ Registrar("Nenhum texto encontrado no PDF")
    /\ df' = <<>>
    /\ pc' = "retorno"
    /\ UNCHANGED <<i, entrada, saidas, pagina_num, texto_completo, secoes, idx,
                   secoes_ativas, secoes_inativas, dados>>

\* all pages read: the text is split into sections
M1_DividirSecoes ==
    /\ programa = MAIN1 /\ pc = "pagina"
    /\ pagina_num > Len(pdfs[i].paginas)
    /\ texto_completo # <<>>
    /\ secoes' = extrair_secoes_pdf(texto_completo)
    /\ idx' = 1
    /\ pc' = "secao"
    /\ UNCHANGED <<i, log, entrada, saidas, pagina_num, texto_completo, secoes_ativas,
                   secoes_inativas, dados, df>>

\* M1_AnalisarSecao as it would be without the check of the section's status
M1_AnalisarSecao_SemValidar ==
    /\ programa = MAIN1 /\ pc = "secao"
    /\ idx <= Len(secoes)
    /\ secoes_ativas' = secoes_ativas + 1
    /\ dados' = dados \o extrair_coordenadas_secao(secoes[idx], empresa, idx)
    /\ idx' = idx + 1
    /\ UNCHANGED <<pc, i, log, entrada, saidas, pagina_num, texto_completo, secoes,
                   secoes_inativas, df>>

\* one section: its points are collected when it is active
M1_AnalisarSecao ==
    /\ programa = MAIN1 /\ pc = "secao"
    /\ idx <= Len(secoes)
    /\ IF validar_secao_ativa(secoes[idx])
       THEN /\ secoes_ativas' = secoes_ativas + 1
            /\ dados' = dados \o extrair_coordenadas_secao(secoes[idx], empresa, idx)
            /\ UNCHANGED secoes_inativas
       ELSE /\ secoes_inativas' = secoes_inativas + 1
            /\ UNCHANGED <<secoes_ativas, dados>>
    /\ idx' = idx + 1
    /\ UNCHANGED <<pc, i, log, entrada, saidas, pagina_num, texto_completo, secoes, df>>

\* all sections seen: the DataFrame, without duplicates, is returned
M1_CriarDataFrame ==
    /\ programa = MAIN1 /\ pc = "secao"
    /\ idx > Len(secoes)
    /\ df' = IF dados # <<>> THEN drop_duplicates(dados) ELSE <<>>
    /\ pc' = "retorno"
    /\ UNCHANGED <<i, log, entrada, saidas, pagina_num, texto_completo, secoes, idx,
                   secoes_ativas, secoes_inativas, dados>>

\* main: the extraction returned an empty DataFrame
M1_SemPontos ==
    /\ programa = MAIN1 /\ pc = "retorno"
    /\ df = <<>>
    /\ Registrar("Nenhum ponto ativo encontrado")
    /\ ProximaEmpresa
    /\ UNCHANGED <<entrada, saidas, locais>>

\* M1_SalvarCsv as it would be if main went on to the map without writing the CSV
M1_SalvarCsv_SemEscrita ==
    /\ programa = MAIN1 /\ pc = "retorno"
    /\ df # <<>>
    /\ pc' = "mapa"
    /\ UNCHANGED <<i, log, entrada, saidas, locais>>

\* main: the operator's CSV is written
M1_SalvarCsv ==
    /\ programa = MAIN1 /\ pc = "retorno"
    /\ df # <<>>
    /\ escritos' = Append(escritos, Arquivo("csv", empresa, df))
    /\ pc' = "mapa"
    /\ UNCHANGED <<i, log, entrada, todos_dfs, df_consolidado, locais>>

\* main: df.to_csv raises; nothing catches it
M1_SalvarCsvErro ==
    /\ programa = MAIN1 /\ pc = "retorno"
    /\ df # <<>>
    /\ pc' = "abortado"
    /\ UNCHANGED <<i, log, entrada, saidas, locais>>

\* criar_mapa_folium saves the operator's map; main appends df to todos_dfs
M1_CriarMapaFolium ==
    /\ programa = MAIN1 /\ pc = "mapa"
    /\ escritos' = IF df = <<>> THEN escritos
                   ELSE Append(escritos, Arquivo("html", empresa, df))
    /\ todos_dfs' = Append(todos_dfs, df)
    /\ ProximaEmpresa
    /\ UNCHANGED <<log, entrada, df_consolidado, locais>>

\* criar_mapa_folium raises (rendering or mapa.save); nothing catches it
M1_CriarMapaFoliumErro ==
    /\ programa = MAIN1 /\ pc = "mapa"
    /\ df # <<>>
    /\ pc' = "abortado"
    /\ UNCHANGED <<i, log, entrada, saidas, locais>>

\* M1_FimDoLaco as it would be if the consolidated step were never entered
M1_FimDoLaco_SemConsolidado ==
    /\ programa = MAIN1 /\ pc = "loop" /\ i > NumEmpresas
    /\ pc' = "resumo"
    /\ UNCHANGED <<i, log, entrada, saidas, locais>>

\* main: the loop is over; the consolidated step runs when todos_dfs is not empty
M1_FimDoLaco ==
    /\ programa = MAIN1 /\ pc = "loop" /\ i > NumEmpresas
    /\ pc' = IF todos_dfs # <<>> THEN "consolidar" ELSE "resumo"
    /\ UNCHANGED <<i, log, entrada, saidas, locais>>

\* criar_mapa_consolidado: concat, then the consolidated CSV
M1_ConsolidadoCsv ==
    /\ programa = MAIN1 /\ pc = "consolidar"
    /\ df_consolidado' = concat(todos_dfs)
    /\ IF df_consolidado' = <<>>
       THEN pc' = "resumo" /\ UNCHANGED escritos
       ELSE /\ escritos' = Append(escritos, Arquivo("csv", TODAS, df_consolidado'))
            /\ pc' = "cons_mapa"
    /\ UNCHANGED <<i, log, entrada, todos_dfs, locais>>

\* criar_mapa_consolidado: to_csv raises; nothing catches it
M1_ConsolidadoCsvErro ==
    /\ programa = MAIN1 /\ pc = "consolidar"
    /\ df_consolidado' = concat(todos_dfs)
    /\ df_consolidado' # <<>>
    /\ pc' = "abortado"
    /\ UNCHANGED <<i, log, entrada, escritos, todos_dfs, locais>>

\* criar_mapa_consolidado: the consolidated map is saved
M1_ConsolidadoMapa ==
    /\ programa = MAIN1 /\ pc = "cons_mapa"
    /\ escritos' = Append(escritos, Arquivo("html", TODAS, df_consolidado))
    /\ pc' = "resumo"
    /\ UNCHANGED <<i, log, entrada, todos_dfs, df_consolidado, locais>>

\* criar_mapa_consolidado: rendering or mapa.save raises; nothing catches it
M1_ConsolidadoMapaErro ==
    /\ programa = MAIN1 /\ pc = "cons_mapa"
    /\ pc' = "abortado"
    /\ UNCHANGED <<i, log, entrada, saidas, locais>>

\* main: the final summary is printed
M1_Resumo ==
    /\ programa = MAIN1 /\ pc = "resumo"
    /\ pc' = "fim"
    /\ UNCHANGED <<i, log, entrada, saidas, locais>>

\* --------------------------------------------------------- main.py: main
\* the operator's file does not exist: message, next operator
M0_ArquivoNaoEncontrado ==
    /\ programa = MAIN /\ pc = "loop" /\ i <= NumEmpresas
    /\ ~pdfs[i].existe
    /\ Registrar("Arquivo nao encontrado")
    /\ i' = i + 1
    /\ UNCHANGED <<pc, entrada, saidas, locais>>

\* the file exists: extrair_coordenadas_pdf is entered
M0_IniciarExtracao ==
    /\ programa = MAIN /\ pc = "loop" /\ i <= NumEmpresas
    /\ pdfs[i].existe
    /\ Registrar("PROCESSANDO")
    /\ dados' = <<>> /\ pagina_num' = 0 /\ df' = <<>>
    /\ pc' = "abrir"
    /\ UNCHANGED <<i, entrada, saidas, texto_completo, secoes, idx, secoes_ativas,
                   secoes_inativas>>

\* pdfplumber.open succeeds
M0_AbrirPdf ==
    /\ programa = MAIN /\ pc = "abrir"
    /\ pdfs[i].abre
    /\ pagina_num' = 1
    /\ pc' = "pagina"
    /\ UNCHANGED <<i, log, entrada, saidas, texto_completo, secoes, idx, secoes_ativas,
                   secoes_inativas, dados, df>>

\* pdfplumber.open raises: caught and logged; the function goes on after the try
M0_AbrirPdfErro ==
    /\ programa = MAIN /\ pc = "abrir"
    /\ ~pdfs[i].abre
    /\ Registrar("Erro ao processar PDF")
    /\ pc' = "dataframe"
    /\ UNCHANGED <<i, entrada, saidas, locais>>

\* one page: the points of its lines are collected (a page without text is skipped)
M0_ExtrairPagina ==
    /\ programa = MAIN /\ pc = "pagina"
    /\ pagina_num <= Len(pdfs[i].paginas)
    /\ ~pdfs[i].paginas[pagina_num].erro
    /\ LET texto == pdfs[i].paginas[pagina_num].texto
       IN  dados' = IF texto = <<>> THEN dados
                    ELSE dados \o coordenadas_das_linhas(split_linhas(texto, 1), empresa,
                                                         pagina_num - 1)
    /\ pagina_num' = pagina_num + 1
    /\ UNCHANGED <<pc, i, log, entrada, saidas, texto_completo, secoes, idx, secoes_ativas,
                   secoes_inativas, df>>

\* extract_text raises: caught and logged; the rows collected so far are kept
M0_ExtrairPaginaErro ==
    /\ programa = MAIN /\ pc = "pagina"
    /\ pagina_num <= Len(pdfs[i].paginas)
    /\ pdfs[i].paginas[pagina_num].erro
    /\ Registrar("Erro ao processar PDF")
    /\ pc' = "dataframe"
    /\ UNCHANGED <<i, entrada, saidas, locais>>

\* all pages read: the function goes on after the try
M0_FimPaginas ==
    /\ programa = MAIN /\ pc = "pagina"
    /\ pagina_num > Len(pdfs[i].paginas)
    /\ pc' = "dataframe"
    /\ UNCHANGED <<i, log, entrada, saidas, locais>>

\* no rows: an empty DataFrame is returned and main skips the operator
M0_SemPontos ==
    /\ programa = MAIN /\ pc = "dataframe"
    /\ dados = <<>>
    /\ df' = <<>>
    /\ Registrar("Nenhum ponto encontrado")
    /\ ProximaEmpresa
    /\ UNCHANGED <<entrada, saidas, pagina_num, texto_completo, secoes, idx, secoes_ativas,
                   secoes_inativas, dados>>

\* rows: the DataFrame without duplicates
M0_CriarDataFrame ==
    /\ programa = MAIN /\ pc = "dataframe"
    /\ dados # <<>>
    /\ df' = drop_duplicates(dados)
    /\ pc' = "csv"
    /\ UNCHANGED <<i, log, entrada, saidas, pagina_num, texto_completo, secoes, idx,
                   secoes_ativas, secoes_inativas, dados>>

\* extrair_coordenadas_pdf writes the operator's CSV and returns df
M0_SalvarCsv ==
    /\ programa = MAIN /\ pc = "csv"
    /\ escritos' = Append(escritos, Arquivo("csv", empresa, df))
    /\ pc' = "retorno"
    /\ UNCHANGED <<i, log, entrada, todos_dfs, df_consolidado, locais>>

\* df.to_csv raises, outside the try; nothing catches it
M0_SalvarCsvErro ==
    /\ programa = MAIN /\ pc = "csv"
    /\ pc' = "abortado"
    /\ UNCHANGED <<i, log, entrada, saidas, locais>>

\* main appends df to todos_dados; criar_mapa_folium saves the operator's map
M0_CriarMapaFolium ==
    /\ programa = MAIN /\ pc = "retorno"
    /\ df # <<>>
    /\ todos_dfs' = Append(todos_dfs, df)
    /\ escritos' = Append(escritos, Arquivo("html", empresa, df))
    /\ ProximaEmpresa
    /\ UNCHANGED <<log, entrada, df_consolidado, locais>>

\* criar_mapa_folium raises (rendering or mapa.save); nothing catches it
M0_CriarMapaFoliumErro ==
    /\ programa = MAIN /\ pc = "retorno"
    /\ df # <<>>
    /\ todos_dfs' = Append(todos_dfs, df)
    /\ pc' = "abortado"
    /\ UNCHANGED <<i, log, entrada, escritos, df_consolidado, locais>>

\* main: the loop is over; the consolidated step runs when todos_dados is not empty
M0_FimDoLaco ==
    /\ programa = MAIN /\ pc = "loop" /\ i > NumEmpresas
    /\ pc' = IF todos_dfs # <<>> THEN "consolidar" ELSE "resumo"
    /\ UNCHANGED <<i, log, entrada, saidas, locais>>

\* criar_mapa_consolidado: concat, then the consolidated map is saved
M0_ConsolidadoMapa ==
    /\ programa = MAIN /\ pc = "consolidar"
    /\ df_consolidado' = concat(todos_dfs)
    /\ IF df_consolidado' = <<>>
       THEN pc' = "resumo" /\ UNCHANGED escritos
       ELSE /\ escritos' = Append(escritos, Arquivo("html", TODAS, df_consolidado'))
            /\ pc' = "cons_csv"
    /\ UNCHANGED <<i, log, entrada, todos_dfs, locais>>

\* criar_mapa_consolidado: rendering or mapa.save raises; nothing catches it
M0_ConsolidadoMapaErro ==
    /\ programa = MAIN /\ pc = "consolidar"
    /\ df_consolidado' = concat(todos_dfs)
    /\ df_consolidado' # <<>>
    /\ pc' = "abortado"
    /\ UNCHANGED <<i, log, entrada, escritos, todos_dfs, locais>>

\* criar_mapa_consolidado: the consolidated CSV, after the map
M0_ConsolidadoCsv ==
    /\ programa = MAIN /\ pc = "cons_csv"
    /\ escritos' = Append(escritos, Arquivo("csv", TODAS, df_consolidado))
    /\ pc' = "resumo"
    /\ UNCHANGED <<i, log, entrada, todos_dfs, df_consolidado, locais>>

\* criar_mapa_consolidado: to_csv raises; nothing catches it
M0_ConsolidadoCsvErro ==
    /\ programa = MAIN /\ pc = "cons_csv"
    /\ pc' = "abortado"
    /\ UNCHANGED <<i, log, entrada, saidas, locais>>

\* main: the final summary is printed
M0_Resumo ==
    /\ programa = MAIN /\ pc = "resumo"
    /\ pc' = "fim"
    /\ UNCHANGED <<i, log, entrada, saidas, locais>>

\* ------------------------------------------------------------ specification
NextMain1 ==
    \/ M1_ArquivoNaoEncontrado \/ M1_IniciarExtracao
    \/ M1_AbrirPdf \/ M1_AbrirPdfErro
    \/ M1_ExtrairPagina \/ M1_ExtrairPaginaErro
    \/ M1_SemTexto \/ M1_DividirSecoes
    \/ M1_AnalisarSecao \/ M1_CriarDataFrame
    \/ M1_SemPontos \/ M1_SalvarCsv \/ M1_SalvarCsvErro
    \/ M1_CriarMapaFolium \/ M1_CriarMapaFoliumErro
    \/ M1_FimDoLaco
    \/ M1_ConsolidadoCsv \/ M1_ConsolidadoCsvErro
    \/ M1_ConsolidadoMapa \/ M1_ConsolidadoMapaErro
    \/ M1_Resumo

NextMain ==
    \/ M0_ArquivoNaoEncontrado \/ M0_IniciarExtracao
    \/ M0_AbrirPdf \/ M0_AbrirPdfErro
    \/ M0_ExtrairPagina \/ M0_ExtrairPaginaErro \/ M0_FimPaginas
    \/ M0_SemPontos \/ M0_CriarDataFrame
    \/ M0_SalvarCsv \/ M0_SalvarCsvErro
    \/ M0_CriarMapaFolium \/ M0_CriarMapaFoliumErro
    \/ M0_FimDoLaco
    \/ M0_ConsolidadoMapa \/ M0_ConsolidadoMapaErro
    \/ M0_ConsolidadoCsv \/ M0_ConsolidadoCsvErro
    \/ M0_Resumo

Next == NextMain \/ NextMain1

\* runs of both scripts over the three operators
Spec == Init /\ [][Next]_vars

\* runs of both scripts in which only the first operator's PDF exists
SpecPdf == InitPdf /\ [][Next]_vars

\* ------------------------------------------- pure functions on bounded texts
\* what the texts handed to validar_secao_ativa are put together from
Fragmentos ==
    { ATIVO, <<"A", "T", "I", "V", "O", ":">>, <<"I", "n">>, <<" ">>, <<"\n">>,
      SIM, <<"S", "I", "M">>, <<"s", "I", "m">>, NAO, <<"S", "i">>, <<"m">> }

RECURSIVE Juntar(_)
Juntar(fs) == IF fs = <<>> THEN <<>> ELSE Head(fs) \o Juntar(Tail(fs))

TextosDeFragmentos == { Juntar(fs) : fs \in SeqAte(Fragmentos, MaxFragmentos) }

InitFuncoes ==
    /\ programa = MAIN1
    /\ pc = "chamada"
    /\ arg \in TextosDeFragmentos
    /\ ret = FALSE
    /\ pdfs = [k \in 1..NumEmpresas |-> PDF_AUSENTE]
    /\ i = 1 /\ log = <<>> /\ escritos = <<>> /\ todos_dfs = <<>> /\ df_consolidado = <<>>
    /\ pagina_num = 0 /\ texto_completo = <<>> /\ secoes = <<>> /\ idx = 0
    /\ secoes_ativas = 0 /\ secoes_inativas = 0 /\ dados = <<>> /\ df = <<>>

\* validar_secao_ativa(arg) is called and returns
F_ValidarSecaoAtiva ==
    /\ pc = "chamada"
    /\ ret' = validar_secao_ativa(arg)
    /\ pc' = "retornou"
    /\ UNCHANGED <<programa, pdfs, arg, i, log, saidas, locais>>

NextFuncoes == F_ValidarSecaoAtiva

\* validar_secao_ativa applied to every text of TextosDeFragmentos
SpecFuncoes == InitFuncoes /\ [][NextFuncoes]_vars

\* what the section texts handed to extrair_coordenadas_secao are put together
\* from, one line each: a code and a pair (codes PN1, PP2, PONTO 3, PN 4), a
\* pair without a code, a code with a pair outside the box, a code alone
LINHA_PN1    == <<"P", "N", "1", " ">> \o PAR_VIRGULA \o NL
LINHA_PP2    == <<"P", "P", "2", " ">> \o PAR_DOIS \o NL
LINHA_PONTO3 == <<"P", "O", "N", "T", "O", " ", "3", " ">> \o PAR_TRES \o NL
LINHA_PN4    == <<"P", "N", " ", "4", " ">> \o PAR_DOIS \o NL
LINHA_BR6    == <<"B", "R", "6", " ">> \o PAR_LAT_LIMITE \o NL
LINHA_PP2_SO == <<"P", "P", "2">> \o NL

LinhasDeSecao ==
    { LINHA_PN1, LINHA_PP2, LINHA_PONTO3, LINHA_PN4, PAR_TRES \o NL, LINHA_BR6,
      LINHA_PP2_SO }

TextosDeSecao == { Juntar(fs) : fs \in SeqAte(LinhasDeSecao, MaxFragmentos) }

InitCodigo ==
    /\ programa = MAIN1
    /\ pc = "chamada"
    /\ arg \in TextosDeSecao
    /\ ret = <<>>
    /\ pdfs = [k \in 1..NumEmpresas |-> PDF_AUSENTE]
    /\ i = 1 /\ log = <<>> /\ escritos = <<>> /\ todos_dfs = <<>> /\ df_consolidado = <<>>
    /\ pagina_num = 0 /\ texto_completo = <<>> /\ secoes = <<>> /\ idx = 0
    /\ secoes_ativas = 0 /\ secoes_inativas = 0 /\ dados = <<>> /\ df = <<>>

\* extrair_coordenadas_secao(arg, empresa, 1) is called and returns its rows,
\* each with the code extrair_codigo_ponto gave it
F_ExtrairCoordenadasSecao ==
    /\ pc = "chamada"
    /\ ret' = pontos_com_codigo(arg, empresa, 1)
    /\ pc' = "retornou"
    /\ UNCHANGED <<programa, pdfs, arg, i, log, saidas, locais>>

NextCodigo == F_ExtrairCoordenadasSecao

\* extrair_coordenadas_secao applied to every text of TextosDeSecao
SpecCodigo == InitCodigo /\ [][NextCodigo]_vars

\* ------------------------------------------------------------------ claims
\* the rows the run has produced so far: collected, returned, written, consolidated
PontosEmitidos ==
    { dados[k] : k \in 1..Len(dados) }
    \cup { df[k] : k \in 1..Len(df) }
    \cup { df_consolidado[k] : k \in 1..Len(df_consolidado) }
    \cup UNION { { todos_dfs[n][k] : k \in 1..Len(todos_dfs[n]) } : n \in 1..Len(todos_dfs) }
    \cup UNION { { escritos[n].linhas[k] : k \in 1..Len(escritos[n].linhas) } :
                 n \in 1..Len(escritos) }

\* the (latitude, longitude) values some pattern matches in texto
ParesCasados(texto) ==
    UNION { LET m == re_par(texto, q, padroes_coordenadas[n])
            IN  IF m.fim > 0 THEN { << float(m.lat_str), float(m.lon_str) >> } ELSE {} :
            q \in 1..Len(texto), n \in 1..Len(padroes_coordenadas) }

MesmoPar(a, b) == a.latitude = b.latitude /\ a.longitude = b.longitude

\* C1: every point the extraction emits (collected, returned, written to a CSV
\* or a map, consolidated) lies strictly inside the box -9.8 < latitude < -9.4,
\* -35.9 < longitude < -35.6, whatever pairs the text holds.
C1_PontosDentroDaCaixa ==
    \A r \in PontosEmitidos :
       /\ r.latitude > 0 - 98 * Pow10(CASAS - 1)
       /\ r.latitude < 0 - 94 * Pow10(CASAS - 1)
       /\ r.longitude > 0 - 359 * Pow10(CASAS - 1)
       /\ r.longitude < 0 - 356 * Pow10(CASAS - 1)

\* C1 witness: a finished run that wrote files from a PDF whose first page holds
\* a pair on a bound, a pair without minus signs and a swapped pair
C1_Witness ==
    /\ pc = "fim"
    /\ escritos # <<>>
    /\ LET pares == UNION { ParesCasados(pdfs[1].paginas[n].texto) :
                            n \in 1..Len(pdfs[1].paginas) }
       IN  /\ << 0 - 98 * Pow10(CASAS - 1), 0 - 357 * Pow10(CASAS - 1) >> \in pares
           /\ << 95 * Pow10(CASAS - 1), 357 * Pow10(CASAS - 1) >> \in pares
           /\ << 0 - 357 * Pow10(CASAS - 1), 0 - 95 * Pow10(CASAS - 1) >> \in pares

\* C2: the DataFrame the extraction returns holds no two rows with the same
\* (latitude, longitude); each of its rows is the first row, in extraction
\* order, that carries its pair, and every extracted pair is kept once.  The
\* extraction order is by section (main(1).py) or page (main.py), so the row
\* kept comes from the lowest-numbered active section that matches the pair.
C2_PrimeiraOcorrenciaMantida ==
    pc \in {"retorno", "csv", "mapa"} =>
       /\ \A a, b \in 1..Len(df) : a # b => ~MesmoPar(df[a], df[b])
       /\ \A a \in 1..Len(df) :
             \E k \in 1..Len(dados) :
                /\ dados[k] = df[a]
                /\ \A j \in 1..(k - 1) : ~MesmoPar(dados[j], df[a])
       /\ \A k \in 1..Len(dados) : \E a \in 1..Len(df) : MesmoPar(dados[k], df[a])
       /\ \A a, b \in 1..Len(df) : a < b =>
             \E k, j \in 1..Len(dados) : k < j /\ dados[k] = df[a] /\ dados[j] = df[b]
       /\ programa = MAIN1 =>
             \A a \in 1..Len(df) : \A n \in 1..(df[a].secao - 1) :
                \/ ~validar_secao_ativa(secoes[n])
                \/ << df[a].latitude, df[a].longitude >> \notin ParesCasados(secoes[n])
       /\ programa = MAIN =>
             \A a \in 1..Len(df) : \A n \in 1..(df[a].pagina - 1) :
                << df[a].latitude, df[a].longitude >> \notin
                   UNION { ParesCasados(strip(l)) :
                           l \in { split_linhas(pdfs[i].paginas[n].texto, 1)[m] :
                                   m \in 1..Len(split_linhas(pdfs[i].paginas[n].texto, 1)) } }

\* C2 witness: main(1).py returned a DataFrame for a PDF in which one pair was
\* extracted from two different sections, once written with a comma and once
\* with a dot (the dot form is matched by both patterns)
C2_Witness ==
    /\ programa = MAIN1
    /\ pc = "retorno"
    /\ df # <<>>
    /\ \E k, j \in 1..Len(dados) :
          /\ MesmoPar(dados[k], dados[j])
          /\ dados[k].secao < dados[j].secao
    /\ \E n \in 1..Len(secoes) :
          Len(re_findall(padroes_coordenadas[1], secoes[n], 1))
             > Len(re_findall(padroes_coordenadas[2], secoes[n], 1))

\* texto holds "Ativo:", optional whitespace, "Sim", letter case ignored
ContemAtivoSim(texto) ==
    \E p \in 1..(Len(texto) - 8) :
       /\ \A k \in 1..6 : lower(texto[p + k - 1]) = <<"a", "t", "i", "v", "o", ":">>[k]
       /\ \E q \in (p + 6)..(Len(texto) - 2) :
             /\ \A k \in (p + 6)..(q - 1) : texto[k] \in {" ", "\n", "\t"}
             /\ \A k \in 1..3 : lower(texto[q + k - 1]) = <<"s", "i", "m">>[k]

\* C6: extrair_coordenadas_pdf_com_ativo returns points of active sections
\* only: every row it collects or returns carries the 1-based index of a
\* section that is active, and its pair is matched in the text of that
\* section; pairs found only in inactive sections or in the text before the
\* first marker do not get in.
C6_SoSecoesAtivas ==
    (programa = MAIN1 /\ pc \in {"secao", "retorno"}) =>
       \A r \in { dados[k] : k \in 1..Len(dados) } \cup { df[k] : k \in 1..Len(df) } :
          /\ r.secao \in 1..Len(secoes)
          /\ ContemAtivoSim(secoes[r.secao])
          /\ << r.latitude, r.longitude >> \in ParesCasados(secoes[r.secao])

\* C6 witness: main(1).py returned points for a text that also holds an in-box
\* pair in an inactive section and an in-box pair before the first marker,
\* neither of them in an active section
C6_Witness ==
    /\ programa = MAIN1
    /\ pc = "retorno"
    /\ df # <<>>
    /\ \E n \in 1..Len(secoes) :
          /\ ~validar_secao_ativa(secoes[n])
          /\ \E par \in ParesCasados(secoes[n]) :
                /\ dentro_dos_limites(par[1], par[2])
                /\ \A a \in 1..Len(df) : << df[a].latitude, df[a].longitude >> # par
    /\ \E par \in ParesCasados(re_split(texto_completo, 1)[1]) :
          /\ dentro_dos_limites(par[1], par[2])
          /\ \A a \in 1..Len(df) : << df[a].latitude, df[a].longitude >> # par

\* C7: validar_secao_ativa returns True exactly when the text holds "Ativo:",
\* optional whitespace and "Sim", letter case ignored: the four patterns decide
\* as the single case-insensitive pattern "Ativo:\s*Sim" does.  A text without
\* "Ativo:" and a text whose "Ativo:" is followed by something else give False.
C7_ValidarComoPadraoUnico ==
    pc = "retornou" =>
       /\ ret = ContemAtivoSim(arg)
       /\ ret = re_search([palavra |-> SIM, repetida |-> FALSE], arg, TRUE)
       /\ (\A p \in 1..Len(arg) : ~re_literal(ATIVO, arg, p, TRUE)) => ~ret
       /\ arg \in {ATIVO \o <<" ">> \o NAO, ATIVO \o NAO, ATIVO \o <<"\n">> \o NAO} => ~ret

\* C7 witness: True was returned for a text whose status field is not written
\* as "Ativo:" / "Sim" / "SIM" / "sim" letter for letter
C7_Witness ==
    /\ pc = "retornou"
    /\ ret
    /\ \A p \in 1..Len(arg) : ~re_literal(ATIVO, arg, p, FALSE)
    /\ \A p \in 1..Len(arg) : \A k \in 1..Len(padroes) :
          ~re_literal(padroes[k].palavra, arg, p, FALSE)

\* the positions of texto where a section marker stands
Marcadores(texto) ==
    { p \in 1..Len(texto) :
         \/ /\ p + 5 <= Len(texto)
            /\ SubSeq(texto, p, p + 5) = <<"L", "i", "n", "h", "a", ":">>
         \/ /\ p + 21 <= Len(texto)
            /\ SubSeq(texto, p, p + 21) = MARCADOR_ATENDIMENTO }

\* the k-th marker of texto, in document order
Marcador(texto, k) ==
    CHOOSE p \in Marcadores(texto) :
       Cardinality({ q \in Marcadores(texto) : q < p }) = k - 1

\* the text between the k-th marker and the next marker or the end of texto
EntreMarcadores(texto, k) ==
    LET p == Marcador(texto, k)
        n == IF texto[p] = "L" THEN 6 ELSE 22
        f == IF k < Cardinality(Marcadores(texto)) THEN Marcador(texto, k + 1) - 1
             ELSE Len(texto)
    IN  SubSeq(texto, p + n, f)

C10_SecaoComecaComMarcador ==
    (programa = MAIN1 /\ pc = "secao") =>
       \A k \in 1..Len(secoes) :
          \/ /\ Len(secoes[k]) >= 6
             /\ SubSeq(secoes[k], 1, 6) = MARCADOR_LINHA
          \/ /\ Len(secoes[k]) >= 22
             /\ SubSeq(secoes[k], 1, 22) = MARCADOR_ATENDIMENTO

\* the run has ended: the summary was printed, or an exception left main
FimDaExecucao == pc \in {"fim", "abortado"}

Escrito(tipo, de) == \E n \in 1..Len(escritos) : escritos[n].tipo = tipo /\ escritos[n].de = de
Logado(msg, de)   == \E n \in 1..Len(log) : log[n] = [msg |-> msg, empresa |-> de]
NomeDe(k) == PDFS_PARA_PROCESSAR[k].empresa

\* C3: a failure while one operator is processed (opening the PDF, extracting
\* page text, writing its CSV, rendering or saving its map) is caught and the
\* run continues: no exception leaves main, every operator of the list is
\* visited and the consolidated map is produced from those that succeeded.
C3_FalhaNaoInterrompe ==
    /\ pc # "abortado"
    /\ pc = "fim" =>
          /\ i = NumEmpresas + 1
          /\ todos_dfs # <<>> => Escrito("html", TODAS)

\* C4 as stated: for every dataset (each operator's and the consolidated one)
\* the CSV is written before the HTML map of the same dataset is saved.
C4_CsvAntesDoHtml ==
    \A n \in 1..Len(escritos) :
       escritos[n].tipo = "html" =>
          \E m \in 1..(n - 1) : escritos[m].tipo = "csv" /\ escritos[m].de = escritos[n].de

\* C4 amended: for each operator's data in both scripts, and for the
\* consolidated data in main(1).py, the deduplicated rows are written to the CSV
\* before the HTML map of the same rows is saved; in main.py the consolidated
\* HTML map is saved first and the consolidated CSV after it.
C4_OrdemDasEscritas ==
    \A n \in 1..Len(escritos) :
       /\ (escritos[n].tipo = "html" /\ (escritos[n].de # TODAS \/ programa = MAIN1)) =>
             \E m \in 1..(n - 1) :
                /\ escritos[m].tipo = "csv"
                /\ escritos[m].de = escritos[n].de
                /\ escritos[m].linhas = escritos[n].linhas
       /\ (escritos[n].tipo = "csv" /\ escritos[n].de = TODAS /\ programa = MAIN) =>
             \E m \in 1..(n - 1) :
                /\ escritos[m].tipo = "html"
                /\ escritos[m].de = TODAS
                /\ escritos[m].linhas = escritos[n].linhas
       /\ escritos[n].de # TODAS =>
             \A a, b \in 1..Len(escritos[n].linhas) :
                a # b => ~MesmoPar(escritos[n].linhas[a], escritos[n].linhas[b])

\* C4 witness: main.py finished after saving the consolidated map and then
\* writing the consolidated CSV, with an operator's CSV and map before them
C4_Witness ==
    /\ programa = MAIN
    /\ pc = "fim"
    /\ Len(escritos) >= 4
    /\ escritos[1].tipo = "csv" /\ escritos[2].tipo = "html"
    /\ escritos[Len(escritos) - 1].tipo = "html" /\ escritos[Len(escritos) - 1].de = TODAS
    /\ escritos[Len(escritos)].tipo = "csv" /\ escritos[Len(escritos)].de = TODAS

\* the extraction of operator k returned a DataFrame with at least one row
RetornouPontos(k) ==
    /\ Logado("PROCESSANDO", NomeDe(k))
    /\ ~Logado("Nenhum ponto encontrado", NomeDe(k))
    /\ ~Logado("Nenhum ponto ativo encontrado", NomeDe(k))
    /\ ~(programa = MAIN /\ pc = "abortado" /\ i = k /\ ~Escrito("csv", NomeDe(k)))

\* what C5 says of the files of the run
ArquivosSseHaPontos ==
    /\ \A k \in 1..NumEmpresas :
          /\ Escrito("csv", NomeDe(k)) <=> RetornouPontos(k)
          /\ Escrito("html", NomeDe(k)) <=> RetornouPontos(k)
    /\ Escrito("html", TODAS) <=> \E k \in 1..NumEmpresas : RetornouPontos(k)
    /\ Escrito("csv", TODAS) <=> \E k \in 1..NumEmpresas : RetornouPontos(k)

NadaDe(k) ==
    /\ \A n \in 1..Len(log) :
          log[n].empresa = NomeDe(k) => log[n].msg = "Arquivo nao encontrado"
    /\ ~Escrito("csv", NomeDe(k))
    /\ ~Escrito("html", NomeDe(k))
    /\ \A r \in PontosEmitidos : r.empresa # NomeDe(k)

\* C8: an operator whose PDF file does not exist is skipped: no extraction is
\* attempted for it, no file is written for it, no row of the consolidated
\* data is its, and the step that skips it changes nothing but the loop
\* position and the log, so the other operators are processed as without it.
C8_ArquivoAusenteIgnorado ==
    [][ /\ (\A k \in 1..NumEmpresas : ~pdfs[k].existe => NadaDe(k))'
        /\ (pc = "loop" /\ i <= NumEmpresas /\ ~pdfs[i].existe) =>
              /\ pc' = "loop"
              /\ i' = i + 1
              /\ UNCHANGED <<saidas, locais>> ]_vars

\* C8 witness: a finished run whose first operator's file was missing, whose
\* second operator got its files and whose consolidated files were written
C8_Witness ==
    /\ pc = "fim"
    /\ ~pdfs[1].existe
    /\ Logado("Arquivo nao encontrado", NomeDe(1))
    /\ Escrito("csv", NomeDe(2)) /\ Escrito("html", NomeDe(2))
    /\ Escrito("csv", TODAS) /\ Escrito("html", TODAS)

\* the codes that sit next to the pair (lat, lon) in texto: a whole match of a
\* code pattern, one blank, then a match of a coordinate pattern with these values
CodigosJuntoDe(texto, lat, lon) ==
    UNION { LET e == re_codigo(padroes_codigo[n], texto, q)
                m == IF e > 0 THEN re_par(texto, e + 1, padroes_coordenadas[1])
                     ELSE [fim |-> 0]
            IN  IF /\ e > 0
                   /\ (q = 1 \/ ~IsUpper(texto[q - 1]))
                   /\ e <= Len(texto) /\ texto[e] = " "
                   /\ m.fim > 0
                   /\ float(m.lat_str) = lat /\ float(m.lon_str) = lon
                THEN { sem_espacos(SubSeq(texto, q, e - 1)) }
                ELSE {} :
            q \in 1..Len(texto), n \in 1..Len(padroes_codigo) }

\* C11: every point extrair_coordenadas_secao returns for a section carries a
\* code that sits next to its own coordinate pair in the section text, when
\* there is one; two pairs sitting next to different codes give two points
\* with their own, different codes.
C11_CodigoJuntoDaCoordenada ==
    pc = "retornou" =>
        \A k \in 1..Len(ret) :
            LET junto == CodigosJuntoDe(arg, ret[k].latitude, ret[k].longitude)
            IN  junto # {} => ret[k].codigo \in junto


\* the operators the main loop has visited so far, in order: each visit prints
\* either "Arquivo nao encontrado" or "PROCESSANDO" for its operator
RECURSIVE VisitasDe(_)
VisitasDe(l) ==
    IF l = <<>> THEN <<>>
    ELSE IF Head(l).msg \in {"Arquivo nao encontrado", "PROCESSANDO"}
         THEN << Head(l).empresa >> \o VisitasDe(Tail(l))
         ELSE VisitasDe(Tail(l))

OrdemConfigurada == [k \in 1..NumEmpresas |-> NomeDe(k)]

EtapaConsolidada == pc \in {"consolidar", "cons_mapa", "cons_csv"}

\* so far the operators were visited in configured order, none twice, and the
\* consolidated step ran only after the last one and wrote each file once
LacoLinear ==
    /\ Len(VisitasDe(log)) <= NumEmpresas
    /\ VisitasDe(log) = SubSeq(OrdemConfigurada, 1, Len(VisitasDe(log)))
    /\ (EtapaConsolidada \/ Escrito("csv", TODAS) \/ Escrito("html", TODAS)) =>
          VisitasDe(log) = OrdemConfigurada
    /\ \A t \in {"csv", "html"} :
          Cardinality({ n \in 1..Len(escritos) :
                          escritos[n].tipo = t /\ escritos[n].de = TODAS }) <= 1

\* C12: every run of main terminates at the final summary: whatever the PDFs
\* of the three operators are (missing, unreadable, without text, without valid
\* points, with valid points) the run visits each configured operator exactly
\* once, in configured order, performs the consolidated step at most once and
\* only after the last operator, and the only state it stops in is the one
\* after the final summary, with every operator visited.
C12_LacoLinearAteOResumo ==
    /\ LacoLinear
    /\ FimDaExecucao => pc = "fim" /\ VisitasDe(log) = OrdemConfigurada

====
